---------------------------- MODULE Spec2Model ----------------------------
(***************************************************************************)
(* Model of coloredlogcat.py: a streaming formatter for adb logcat output. *)
(* Text is modelled as a sequence of one-character strings; the escape     *)
(* byte 0x1b is the element "ESC".  A line read from the input keeps its   *)
(* terminating "\n", as readline() returns it.                             *)
(***************************************************************************)
EXTENDS Integers, Sequences, FiniteSets, TLC

VARIABLES
    input,          \* the lines the input source will deliver, in order
    pos,            \* number of lines readline() has returned so far
    pc,             \* "loop" | "eof" | "interrupted" | "badtagtype" | "wrapping"
    stdout,         \* the texts written by the print statement, in order
    timeOutputted,  \* the format flag
    linenumber,     \* the line counter
    WIDTH,          \* terminal width in columns
    KNOWN_TAGS,     \* tag -> colour
    LAST_USED,      \* the colours, least recently used first
    lastTag,        \* argument of the latest allocate_color call (<<>> if none)
    lastColor,      \* result of the latest allocate_color call (None if none)
    lastWasNew,     \* whether the latest call found its tag absent
    newRun,         \* colours handed to the current run of consecutive new tags
    calls,          \* number of allocate_color calls made
    usedAt,         \* colour -> number of the latest call that returned it (0 if none)
    message,        \* indent_wrap: argument
    indent,         \* indent_wrap: argument
    width,          \* indent_wrap: argument
    current,        \* indent_wrap: local
    messagebuf,     \* indent_wrap: text written to the buffer so far
    wpc             \* indent_wrap: "idle" | "loop" | "returned"

vars == <<input, pos, pc, stdout, timeOutputted, linenumber, WIDTH,
          KNOWN_TAGS, LAST_USED, lastTag, lastColor, lastWasNew, newRun, calls, usedAt,
          message, indent, width, current, messagebuf, wpc>>

driverVars  == <<input, pos, pc, stdout, timeOutputted, linenumber, WIDTH>>
paletteVars == <<KNOWN_TAGS, LAST_USED>>
callVars    == <<lastTag, lastColor, lastWasNew, newRun, calls, usedAt>>
wrapVars    == <<message, indent, width, current, messagebuf, wpc>>

-----------------------------------------------------------------------------
(* Generic helpers for Python's str and list operations.                   *)

None == -1

Range(s) == {s[i] : i \in 1..Len(s)}

Min(a, b) == IF a < b THEN a ELSE b

Max(a, b) == IF a > b THEN a ELSE b

\* " " * n
Spaces(n) == [i \in 1..Max(n, 0) |-> " "]

\* a slice bound as Python normalises it: negative counts from the end, then clamped
SliceBound(n, len) == IF n < 0 THEN Max(n + len, 0) ELSE Min(n, len)

\* s[a:b] (Python slice, 0-based, end exclusive, negative bounds allowed)
Slice(s, a, b) == SubSeq(s, SliceBound(a, Len(s)) + 1, SliceBound(b, Len(s)))

\* str.ljust(w)
ljust(s, w) == s \o Spaces(w - Len(s))

\* str.rjust(w)
rjust(s, w) == Spaces(w - Len(s)) \o s

\* str.center(w): CPython pads left with marg/2 + (marg & w & 1)
center(s, w) ==
    IF Len(s) >= w THEN s
    ELSE LET marg == w - Len(s)
             left == (marg \div 2) + (IF marg % 2 = 1 /\ w % 2 = 1 THEN 1 ELSE 0)
         IN  Spaces(left) \o s \o Spaces(marg - left)

\* the characters str.strip() removes: bytes 0x09-0x0d and 0x20 (the fourth
\* string holds the vertical tab, byte 0x0b)
Whitespace == {" ", "\t", "\n", "", "\f", "\r"}

RECURSIVE lstrip(_)
lstrip(s) == IF s # <<>> /\ Head(s) \in Whitespace THEN lstrip(Tail(s)) ELSE s

RECURSIVE rstrip(_)
rstrip(s) ==
    IF s # <<>> /\ s[Len(s)] \in Whitespace THEN rstrip(SubSeq(s, 1, Len(s) - 1)) ELSE s

\* str.strip()
strip(s) == rstrip(lstrip(s))

\* s[-n:] for n > 0
LastChars(s, n) == IF Len(s) <= n THEN s ELSE SubSeq(s, Len(s) - n + 1, Len(s))

DigitChar(d) == <<"0", "1", "2", "3", "4", "5", "6", "7", "8", "9">>[d + 1]

\* str(n) for n >= 0
RECURSIVE str(_)
str(n) == IF n < 10 THEN <<DigitChar(n)>> ELSE str(n \div 10) \o <<DigitChar(n % 10)>>

\* ";".join(codes)
RECURSIVE JoinSemi(_)
JoinSemi(codes) ==
    IF codes = <<>> THEN <<>>
    ELSE IF Len(codes) = 1 THEN codes[1]
    ELSE codes[1] \o <<";">> \o JoinSemi(Tail(codes))

\* index of the first occurrence of c in s at or after position from; 0 if none
IndexFrom(s, c, from) ==
    LET hits == {i \in from..Len(s) : s[i] = c}
    IN  IF hits = {} THEN 0 ELSE CHOOSE i \in hits : \A j \in hits : i <= j

\* list.remove(x): drops the first occurrence (x is present at every call site)
ListRemove(s, x) ==
    LET i == IndexFrom(s, x, 1)
    IN  IF i = 0 THEN s ELSE SubSeq(s, 1, i - 1) \o SubSeq(s, i + 1, Len(s))

-----------------------------------------------------------------------------
(* Colours and escape codes.                                               *)

BLACK == 0
RED == 1
GREEN == 2
YELLOW == 3
BLUE == 4
MAGENTA == 5
CYAN == 6
WHITE == 7

\* format(fg, bg, bright, bold, dim, reset); an absent fg or bg is None
format(fg, bg, bright, bold, dim, reset) ==
    LET c0 == IF reset THEN <<<<"0">>>> ELSE <<>>
        c1 == IF ~reset /\ fg # None THEN <<<<"3">> \o str(fg)>> ELSE <<>>
        c2 == IF ~reset /\ bg # None
              THEN IF ~bright THEN <<<<"4">> \o str(bg)>>
                   ELSE <<<<"1", "0">> \o str(bg)>>
              ELSE <<>>
        c3 == IF reset THEN <<>>
              ELSE IF bold THEN <<<<"1">>>>
              ELSE IF dim THEN <<<<"2">>>>
              ELSE <<<<"2", "2">>>>
    IN  <<"ESC", "[">> \o JoinSemi(c0 \o c1 \o c2 \o c3) \o <<"m">>

Reset == format(None, None, FALSE, FALSE, FALSE, TRUE)

-----------------------------------------------------------------------------
(* indent_wrap.                                                            *)

\* mutant of WrapBody: the separator is written after the last chunk too
WrapBody_trailing(msg, ind, wid, cur, buf) ==
    LET wrap_area == wid - ind
        next == Min(cur + wrap_area, Len(msg))
        buf1 == buf \o Slice(msg, cur, next)
        buf2 == IF next <= Len(msg) THEN buf1 \o <<"\n">> \o Spaces(ind) ELSE buf1
    IN  <<next, buf2>>

\* mutant of WrapBody: the first chunk is indented like the chunks after it
WrapBody_indentfirst(msg, ind, wid, cur, buf) ==
    LET wrap_area == wid - ind
        next == Min(cur + wrap_area, Len(msg))
        buf0 == IF cur = 0 THEN Spaces(ind) ELSE buf
        buf1 == buf0 \o Slice(msg, cur, next)
        buf2 == IF next < Len(msg) THEN buf1 \o <<"\n">> \o Spaces(ind) ELSE buf1
    IN  <<next, buf2>>

\* one pass through the body of the while loop: the new <<current, messagebuf>>
WrapBody(msg, ind, wid, cur, buf) ==
    LET wrap_area == wid - ind
        next == Min(cur + wrap_area, Len(msg))
        buf1 == buf \o Slice(msg, cur, next)
        buf2 == IF next < Len(msg) THEN buf1 \o <<"\n">> \o Spaces(ind) ELSE buf1
    IN  <<next, buf2>>

RECURSIVE WrapLoop(_, _, _, _, _)
WrapLoop(msg, ind, wid, cur, buf) ==
    IF cur < Len(msg)
    THEN LET r == WrapBody(msg, ind, wid, cur, buf)
         IN  WrapLoop(msg, ind, wid, r[1], r[2])
    ELSE buf

\* the loop makes progress only when wrap_area >= 1; otherwise current never
\* reaches len(message) and the call does not return
WrapReturns(msg, ind, wid) == Len(msg) = 0 \/ wid - ind >= 1

\* indent_wrap(message, indent, width), where the call returns
indent_wrap(msg, ind, wid) == WrapLoop(msg, ind, wid, 0, <<>>)

-----------------------------------------------------------------------------
(* The colour allocator.                                                   *)

dalvikvm == <<"d", "a", "l", "v", "i", "k", "v", "m">>
Process == <<"P", "r", "o", "c", "e", "s", "s">>
ActivityManager == <<"A", "c", "t", "i", "v", "i", "t", "y", "M", "a", "n", "a", "g", "e", "r">>
ActivityThread == <<"A", "c", "t", "i", "v", "i", "t", "y", "T", "h", "r", "e", "a", "d">>

SeededTags == {dalvikvm, Process, ActivityManager, ActivityThread}

\* mutant of LAST_USED_Init: the ring without the colours of the seeded tags
LAST_USED_Init_unpinned == <<RED, GREEN, YELLOW, MAGENTA, WHITE>>

LAST_USED_Init == <<RED, GREEN, YELLOW, BLUE, MAGENTA, CYAN, WHITE>>

KNOWN_TAGS_Init ==
    [t \in SeededTags |-> IF t \in {dalvikvm, Process} THEN BLUE ELSE CYAN]

\* mutant of TagColor: the colour is taken from the ring whether or not the
\* tag has an entry
TagColor_always(tag, known, last) == last[1]

\* mutant of TagColor: a new tag takes the second colour of the ring
TagColor_second(tag, known, last) == IF tag \in DOMAIN known THEN known[tag] ELSE last[2]

\* the entry a tag has once line 90 has run
TagColor(tag, known, last) == IF tag \in DOMAIN known THEN known[tag] ELSE last[1]

\* KNOWN_TAGS after the call
KnownAfter(tag, known, last) ==
    IF tag \in DOMAIN known THEN known
    ELSE [t \in DOMAIN known \cup {tag} |->
            IF t = tag THEN TagColor(tag, known, last) ELSE known[t]]

\* mutant of UsedAfter: the colour is appended without being removed
UsedAfter_keep(color, last) == last \o <<color>>

\* mutant of UsedAfter: the colour is moved to the front of the list
UsedAfter_front(color, last) == <<color>> \o ListRemove(last, color)

\* LAST_USED after the call: the colour is removed and appended
UsedAfter(color, last) == ListRemove(last, color) \o <<color>>

\* allocate_color(tag): the colour returned and the palette it leaves
allocate_color(tag, known, last) ==
    LET color == TagColor(tag, known, last)
    IN  [color |-> color,
         known |-> KnownAfter(tag, known, last),
         last  |-> UsedAfter(color, last)]

-----------------------------------------------------------------------------
(* Field widths and the severity badges.                                   *)

NUMBER_WIDTH == 6
TAGTYPE_WIDTH == 3
TAG_WIDTH == 25
PROCESS_WIDTH == 8
TIME_WIDTH == 21
HEADER_SIZE == 1 + NUMBER_WIDTH + TAGTYPE_WIDTH + 1 + TAG_WIDTH + 1 + PROCESS_WIDTH + 1

\* the keys of TAGTYPES
TagtypeKeys == {<<"V">>, <<"D">>, <<"I">>, <<"W">>, <<"E">>}

TagtypeFg(t) == IF t = <<"V">> THEN WHITE ELSE BLACK

TagtypeBg(t) ==
    CASE t = <<"V">> -> BLACK
      [] t = <<"D">> -> BLUE
      [] t = <<"I">> -> GREEN
      [] t = <<"W">> -> YELLOW
      [] t = <<"E">> -> RED

\* TAGTYPES[t] for a key t
TAGTYPES(t) ==
    format(TagtypeFg(t), TagtypeBg(t), FALSE, FALSE, FALSE, FALSE)
        \o center(t, TAGTYPE_WIDTH) \o Reset \o <<" ">>

-----------------------------------------------------------------------------
(* The two regular expressions.  A match is the tuple groups() returns;    *)
(* no match (None) is the empty tuple.                                     *)

NoMatch == <<>>

Upper == {"A", "B", "C", "D", "E", "F", "G", "H", "I", "J", "K", "L", "M",
          "N", "O", "P", "Q", "R", "S", "T", "U", "V", "W", "X", "Y", "Z"}

\* the class [\-:\. 0-9]
TimeChars == {"-", ":", ".", " ", "0", "1", "2", "3", "4", "5", "6", "7", "8", "9"}

\* where (.*)$ ends: at the end of the text, or before a final newline
MessageEnd(s) == IF s # <<>> /\ s[Len(s)] = "\n" THEN Len(s) - 1 ELSE Len(s)

\* retagDefault.match(s): ^([A-Z])/([^\(]+)\(([^\)]+)\): (.*)$
\* [^\(]+ followed by \( ends at the first "(", [^\)]+ followed by \) at the
\* first ")" after it; "." does not match a newline
retagDefault(s) ==
    LET lp == IndexFrom(s, "(", 3)
        rp == IF lp = 0 THEN 0 ELSE IndexFrom(s, ")", lp + 1)
        e  == MessageEnd(s)
    IN  IF /\ Len(s) >= 2
           /\ s[1] \in Upper
           /\ s[2] = "/"
           /\ lp >= 4
           /\ rp >= lp + 2
           /\ e >= rp + 2
           /\ s[rp + 1] = ":"
           /\ s[rp + 2] = " "
           /\ \A i \in (rp + 3)..e : s[i] # "\n"
        THEN <<<<s[1]>>, SubSeq(s, 3, lp - 1), SubSeq(s, lp + 1, rp - 1),
               SubSeq(s, rp + 3, e)>>
        ELSE NoMatch

\* length of the longest prefix of s made of characters of TimeChars
RECURSIVE TimePrefix(_, _)
TimePrefix(s, n) ==
    IF n < Len(s) /\ s[n + 1] \in TimeChars THEN TimePrefix(s, n + 1) ELSE n

\* retagTime.match(s): ^([\-:\. 0-9]+) ([A-Z])/([^\(]+)\(([^\)]+)\): (.*)$
\* the greedy time group gives back exactly one character, the separating
\* space, because the severity letter after it is not a time character
retagTime(s) ==
    LET p == TimePrefix(s, 0)
        m == IF p >= 2 /\ s[p] = " " THEN retagDefault(SubSeq(s, p + 1, Len(s))) ELSE NoMatch
    IN  IF m = NoMatch THEN NoMatch ELSE <<SubSeq(s, 1, p - 1)>> \o m

\* mutant of MatchLine: the brief pattern is tried first on every line and a
\* brief match puts the flag back to brief
MatchLine_retry(line, timed) ==
    IF retagDefault(line) # NoMatch THEN [match |-> retagDefault(line), timed |-> FALSE]
    ELSE [match |-> retagTime(line), timed |-> timed \/ retagTime(line) # NoMatch]

\* mutant of MatchLine: the timestamped pattern is tried in brief mode without
\* the flag being set
MatchLine_noswitch(line, timed) ==
    IF timed THEN [match |-> retagTime(line), timed |-> TRUE]
    ELSE IF retagDefault(line) # NoMatch THEN [match |-> retagDefault(line), timed |-> FALSE]
    ELSE [match |-> retagTime(line), timed |-> FALSE]

\* lines 152-160: the match, and the flag after it
MatchLine(line, timed) ==
    IF timed THEN [match |-> retagTime(line), timed |-> TRUE]
    ELSE IF retagDefault(line) # NoMatch THEN [match |-> retagDefault(line), timed |-> FALSE]
    ELSE [match |-> retagTime(line), timed |-> retagTime(line) # NoMatch]

\* lines 163-166: the named fields of a match
Fields(match, timed) ==
    IF timed
    THEN [time |-> match[1], tagtype |-> match[2], tag |-> match[3],
          owner |-> match[4], message |-> match[5]]
    ELSE [time |-> <<>>, tagtype |-> match[1], tag |-> match[2],
          owner |-> match[3], message |-> match[4]]

-----------------------------------------------------------------------------
(* The body of the main loop for a matched line.                           *)

\* mutant of NumberField: numbering from 0
NumberField_zero(n) == <<" ">> \o ljust(str(n - 1), NUMBER_WIDTH)

\* lines 170-171: the line-number field
NumberField(n) == <<" ">> \o ljust(str(n), NUMBER_WIDTH)

\* lines 175-177: the process field
OwnerField(owner) ==
    IF PROCESS_WIDTH > 0
    THEN format(BLACK, BLACK, TRUE, FALSE, FALSE, FALSE)
            \o center(strip(owner), PROCESS_WIDTH) \o Reset \o <<" ">>
    ELSE <<>>

\* lines 182-183: the tag field, in the colour allocate_color returned
TagField(tag, color) ==
    format(color, None, FALSE, FALSE, FALSE, FALSE)
        \o rjust(LastChars(strip(tag), TAG_WIDTH), TAG_WIDTH) \o <<" ">> \o Reset

\* lines 190-191: the time field
TimeField(time, timed) ==
    IF timed THEN ljust(<<"[">> \o time \o <<"]", " ">>, TIME_WIDTH) ELSE <<>>

\* lines 194-196
headerSize(timed) == IF timed THEN HEADER_SIZE + TIME_WIDTH ELSE HEADER_SIZE

\* mutant of RenderLine: the tag field is written before the process field
RenderLine_tagfirst(f, timed, n, color, wid) ==
    NumberField(n) \o TagField(f.tag, color) \o OwnerField(f.owner)
        \o TAGTYPES(f.tagtype) \o TimeField(f.time, timed)
        \o indent_wrap(f.message, headerSize(timed), wid)

\* lines 168-205: the text of a rendered line, given the colour of its tag
RenderLine(f, timed, n, color, wid) ==
    NumberField(n) \o OwnerField(f.owner) \o TagField(f.tag, color)
        \o TAGTYPES(f.tagtype) \o TimeField(f.time, timed)
        \o indent_wrap(f.message, headerSize(timed), wid)

\* line 207: what the print statement writes for a line
PrintLine(line) == line \o <<"\n">>

-----------------------------------------------------------------------------
(* Inputs.                                                                 *)

MaxLines == 3

\* terminal widths: 48 wraps brief records at 2 columns and leaves no room
\* for timestamped ones; 69 wraps timestamped records at 2 columns
Widths == {48, 69}

LineBrief ==
    <<"I", "/", "F", "o", "o", "(", "1", ")", ":", " ", "a", "b", "c", "d", "e", "\n">>
LineSeeded ==
    <<"D", "/", "P", "r", "o", "c", "e", "s", "s", "(", " ", "1", "2", ")", ":", " ", "\n">>
\* a timestamped record whose tag ends in a space and a vertical tab (0x0b)
LineTime ==
    <<"1", "-", "2", " ", "3", ":", "4", " ", "W", "/", "B", "a", "r", " ", "", "(",
      "7", ")", ":", " ", "a", "b", "c", "d", "\n">>
LineTimeSeeded ==
    <<"2", " ", "V", "/", "d", "a", "l", "v", "i", "k", "v", "m", "(", "9", ")", ":", " ", "\n">>
LineBadBrief ==
    <<"Z", "/", "F", "o", "o", "(", "1", ")", ":", " ", "x", "\n">>
LineBadTime ==
    <<"0", " ", "Q", "/", "B", "(", "1", ")", ":", " ", "x", "\n">>
\* a tag of 26 characters, one more than TAG_WIDTH
LineLongTag ==
    <<"D", "/", "a", "b", "c", "d", "e", "f", "g", "h", "i", "j", "k", "l", "m", "n",
      "o", "p", "q", "r", "s", "t", "u", "v", "w", "x", "y", "z", "(", "1", ")", ":",
      " ", "m", "\n">>
\* a process id of 9 characters, one more than PROCESS_WIDTH
LineLongOwner ==
    <<"I", "/", "F", "o", "o", "(", "1", "2", "3", "4", "5", "6", "7", "8", "9", ")",
      ":", " ", "a", "b", "c", "\n">>
LineOther == <<"h", "i", "\n">>
LineBlank == <<"\n">>
LineLastOther == <<"x">>
LineLastBrief == <<"E", "/", "F", "o", "o", "(", "2", ")", ":", " ", "a", "b">>

\* lines as readline() returns them before the end of the stream
TerminatedLines ==
    {LineBrief, LineSeeded, LineTime, LineTimeSeeded, LineBadBrief, LineBadTime,
     LineLongTag, LineLongOwner, LineOther, LineBlank}

\* only the last line of a stream can lack its newline
LastLines == TerminatedLines \cup {LineLastOther, LineLastBrief}

Inputs ==
    {<<>>} \cup
    UNION {{front \o <<last>> : front \in [1..(n - 1) -> TerminatedLines], last \in LastLines}
           : n \in 1..MaxLines}

-----------------------------------------------------------------------------
(* State and actions.                                                      *)

\* a call of allocate_color(tag), with the record of the call
Allocate(tag) ==
    LET r == allocate_color(tag, KNOWN_TAGS, LAST_USED)
        new == tag \notin DOMAIN KNOWN_TAGS
    IN  /\ KNOWN_TAGS' = r.known
        /\ LAST_USED' = r.last
        /\ lastTag' = tag
        /\ lastColor' = r.color
        /\ lastWasNew' = new
        /\ newRun' = IF new THEN Append(newRun, r.color) ELSE <<>>
        /\ calls' = calls + 1
        /\ usedAt' = [usedAt EXCEPT ![r.color] = calls + 1]

PaletteInit ==
    /\ KNOWN_TAGS = KNOWN_TAGS_Init
    /\ LAST_USED = LAST_USED_Init
    /\ lastTag = <<>>
    /\ lastColor = None
    /\ lastWasNew = FALSE
    /\ newRun = <<>>
    /\ calls = 0
    /\ usedAt = [c \in BLACK..WHITE |-> 0]

WrapIdle ==
    /\ message = <<>>
    /\ indent = 0
    /\ width = 0
    /\ current = 0
    /\ messagebuf = <<>>
    /\ wpc = "idle"

\* lines 121-144: stdin is a terminal (adb is spawned, time format) or a pipe
Init ==
    /\ input \in Inputs
    /\ pos = 0
    /\ pc = "loop"
    /\ stdout = <<>>
    /\ timeOutputted \in BOOLEAN
    /\ linenumber = 1
    /\ WIDTH \in Widths
    /\ PaletteInit
    /\ WrapIdle

\* line 148: what readline() returns, "" at the end of the stream
NextLine == IF pos < Len(input) THEN input[pos + 1] ELSE <<>>

Matched == MatchLine(NextLine, timeOutputted)

MatchedFields == Fields(Matched.match, Matched.timed)

\* mutant of Interrupt: the interrupted read is taken for an empty line, which
\* is printed before the loop is left
Interrupt_flush ==
    /\ pc = "loop"
    /\ pc' = "interrupted"
    /\ stdout' = Append(stdout, PrintLine(<<>>))
    /\ UNCHANGED <<input, pos, timeOutputted, linenumber, WIDTH>>
    /\ UNCHANGED <<paletteVars, callVars, wrapVars>>

\* lines 149-150: KeyboardInterrupt during readline()
Interrupt ==
    /\ pc = "loop"
    /\ pc' = "interrupted"
    /\ UNCHANGED <<input, pos, stdout, timeOutputted, linenumber, WIDTH>>
    /\ UNCHANGED <<paletteVars, callVars, wrapVars>>

\* readline() returns "": nothing matches, print writes the empty line, break
ReadEOF ==
    /\ pc = "loop"
    /\ NextLine = <<>>
    /\ timeOutputted' = Matched.timed
    /\ stdout' = Append(stdout, PrintLine(NextLine))
    /\ pc' = "eof"
    /\ UNCHANGED <<input, pos, linenumber, WIDTH>>
    /\ UNCHANGED <<paletteVars, callVars, wrapVars>>

\* mutant of PassThrough: every line read is counted
PassThrough_counts ==
    /\ pc = "loop"
    /\ NextLine # <<>>
    /\ Matched.match = NoMatch
    /\ pos' = pos + 1
    /\ timeOutputted' = Matched.timed
    /\ linenumber' = linenumber + 1
    /\ stdout' = Append(stdout, PrintLine(NextLine))
    /\ UNCHANGED <<input, pc, WIDTH>>
    /\ UNCHANGED <<paletteVars, callVars, wrapVars>>

\* a line that matches no pattern is printed as read
PassThrough ==
    /\ pc = "loop"
    /\ NextLine # <<>>
    /\ Matched.match = NoMatch
    /\ pos' = pos + 1
    /\ timeOutputted' = Matched.timed
    /\ stdout' = Append(stdout, PrintLine(NextLine))
    /\ UNCHANGED <<input, pc, linenumber, WIDTH>>
    /\ UNCHANGED <<paletteVars, callVars, wrapVars>>

\* a matched line with a known tagtype whose message can be wrapped
Render ==
    /\ pc = "loop"
    /\ Matched.match # NoMatch
    /\ MatchedFields.tagtype \in TagtypeKeys
    /\ WrapReturns(MatchedFields.message, headerSize(Matched.timed), WIDTH)
    /\ pos' = pos + 1
    /\ timeOutputted' = Matched.timed
    /\ linenumber' = linenumber + 1
    /\ Allocate(strip(MatchedFields.tag))
    /\ stdout' = Append(stdout,
            PrintLine(RenderLine(MatchedFields, Matched.timed, linenumber,
                                 TagColor(strip(MatchedFields.tag), KNOWN_TAGS, LAST_USED),
                                 WIDTH)))
    /\ UNCHANGED <<input, pc, WIDTH, wrapVars>>

\* mutant of BadTagtype: the line is passed through raw and the loop goes on
BadTagtype_passes ==
    /\ pc = "loop"
    /\ Matched.match # NoMatch
    /\ MatchedFields.tagtype \notin TagtypeKeys
    /\ pos' = pos + 1
    /\ timeOutputted' = Matched.timed
    /\ linenumber' = linenumber + 1
    /\ Allocate(strip(MatchedFields.tag))
    /\ stdout' = Append(stdout, PrintLine(NextLine))
    /\ UNCHANGED <<input, pc, WIDTH, wrapVars>>

\* line 186: a matched line whose tagtype is not a key of TAGTYPES: break
BadTagtype ==
    /\ pc = "loop"
    /\ Matched.match # NoMatch
    /\ MatchedFields.tagtype \notin TagtypeKeys
    /\ pos' = pos + 1
    /\ timeOutputted' = Matched.timed
    /\ linenumber' = linenumber + 1
    /\ Allocate(strip(MatchedFields.tag))
    /\ pc' = "badtagtype"
    /\ UNCHANGED <<input, stdout, WIDTH, wrapVars>>

\* line 197: indent_wrap is entered with wrap_area <= 0 and a non-empty
\* message; its loop never ends, so nothing after it runs
WrapForever ==
    /\ pc = "loop"
    /\ Matched.match # NoMatch
    /\ MatchedFields.tagtype \in TagtypeKeys
    /\ ~WrapReturns(MatchedFields.message, headerSize(Matched.timed), WIDTH)
    /\ pos' = pos + 1
    /\ timeOutputted' = Matched.timed
    /\ linenumber' = linenumber + 1
    /\ Allocate(strip(MatchedFields.tag))
    /\ pc' = "wrapping"
    /\ UNCHANGED <<input, stdout, WIDTH, wrapVars>>

Next ==
    \/ Interrupt
    \/ ReadEOF
    \/ PassThrough
    \/ Render
    \/ BadTagtype
    \/ WrapForever

Spec == Init /\ [][Next]_vars

-----------------------------------------------------------------------------
(* The colour allocator on its own: allocate_color called with any         *)
(* sequence of tags.                                                       *)

MaxNewTags == 9
MaxCalls == 10

\* tags the program has no entry for at the start
NewTag(i) == <<"t">> \o str(i)

NewTags == {NewTag(i) : i \in 1..MaxNewTags}

Tags == SeededTags \cup NewTags

\* allocate_color treats a tag only through "in KNOWN_TAGS" and equality, so
\* which unseen tag comes next does not matter: unseen tags arrive in the
\* order NewTag(1), NewTag(2), ...
Arrives(tag) ==
    \/ tag \in DOMAIN KNOWN_TAGS
    \/ \E i \in 1..MaxNewTags :
          /\ tag = NewTag(i)
          /\ \A j \in 1..(i - 1) : NewTag(j) \in DOMAIN KNOWN_TAGS

DriverIdle ==
    /\ input = <<>>
    /\ pos = 0
    /\ pc = "loop"
    /\ stdout = <<>>
    /\ timeOutputted = FALSE
    /\ linenumber = 1
    /\ WIDTH = 80

PaletteSpecInit == DriverIdle /\ PaletteInit /\ WrapIdle

Call ==
    /\ calls < MaxCalls
    /\ \E tag \in Tags :
          /\ Arrives(tag)
          /\ Allocate(tag)
    /\ UNCHANGED <<driverVars, wrapVars>>

PaletteNext == Call

SpecPalette == PaletteSpecInit /\ [][PaletteNext]_vars

-----------------------------------------------------------------------------
(* indent_wrap on its own, one pass of its while loop per step.            *)

MaxMsgLen == 6
MaxIndent == 2
MaxWidth == 5
MaxWrapBuf == 6

MessageChars == {"a", "b"}

Messages == UNION {[1..n -> MessageChars] : n \in 0..MaxMsgLen}

\* lines 66-68: the call is entered
WrapSpecInit ==
    /\ DriverIdle
    /\ PaletteInit
    /\ message \in Messages
    /\ indent \in 0..MaxIndent
    /\ width \in 0..MaxWidth
    /\ current = 0
    /\ messagebuf = <<>>
    /\ wpc = "loop"

\* lines 69-74: one pass through the loop; a loop that cannot end
\* (wrap_area <= 0) is followed until the buffer holds MaxWrapBuf characters
WrapStep ==
    /\ wpc = "loop"
    /\ current < Len(message)
    /\ width - indent >= 1 \/ Len(messagebuf) < MaxWrapBuf
    /\ current' = WrapBody(message, indent, width, current, messagebuf)[1]
    /\ messagebuf' = WrapBody(message, indent, width, current, messagebuf)[2]
    /\ UNCHANGED <<message, indent, width, wpc>>
    /\ UNCHANGED <<driverVars, paletteVars, callVars>>

\* line 75: the loop is left and the buffer returned
WrapReturn ==
    /\ wpc = "loop"
    /\ ~(current < Len(message))
    /\ wpc' = "returned"
    /\ UNCHANGED <<message, indent, width, current, messagebuf>>
    /\ UNCHANGED <<driverVars, paletteVars, callVars>>

WrapNext == WrapStep \/ WrapReturn

SpecWrap == WrapSpecInit /\ [][WrapNext]_vars

-----------------------------------------------------------------------------
(* Reading the output back: what a terminal shows of a written text.       *)

\* the text without its escape sequences (ESC [ ... m)
RECURSIVE Visible(_)
Visible(s) ==
    LET e == IndexFrom(s, "ESC", 1)
        m == IndexFrom(s, "m", e)
    IN  IF e = 0 THEN s
        ELSE SubSeq(s, 1, e - 1)
                \o (IF m = 0 THEN <<>> ELSE Visible(SubSeq(s, m + 1, Len(s))))

\* a written text that is a rendered record: raw input carries no escape byte
IsRendered(rec) == "ESC" \in Range(rec)

\* the columns after the fixed header hold "[<time>] " padded to TIME_WIDTH
HasTimeField(rec) ==
    LET v == Visible(rec)
        close == IndexFrom(v, "]", HEADER_SIZE + 2)
    IN  /\ Len(v) >= HEADER_SIZE + TIME_WIDTH
        /\ v[HEADER_SIZE + 1] = "["
        /\ close > HEADER_SIZE + 2
        /\ \A i \in (HEADER_SIZE + 2)..(close - 1) : v[i] \in TimeChars
        /\ \A i \in (close + 1)..(HEADER_SIZE + TIME_WIDTH) : v[i] = " "

\* the line-number column of a rendered record
NumberColumn(rec) == SubSeq(rec, 2, 1 + NUMBER_WIDTH)

\* how many of the first i written texts are rendered records
RenderedUpTo(i) == Cardinality({j \in 1..i : IsRendered(stdout[j])})

\* the line about to be read matches in the current mode
NextMatches == Matched.match # NoMatch

\* ... and its severity letter is not a key of TAGTYPES
NextHasBadSeverity == NextMatches /\ MatchedFields.tagtype \notin TagtypeKeys

-----------------------------------------------------------------------------
(* C1-C4, C9: the stream driver.                                           *)

\* C1: when the line read matches a record shape and its severity letter is
\* not one of V, D, I, W, E, the step that processes it writes nothing and
\* leaves the loop; once the loop is left nothing more is written or read,
\* and what was written before stays as it was.
C1_UnknownSeverityStops ==
    [][ /\ (pc = "loop" /\ NextHasBadSeverity)
            => (stdout' = stdout /\ pc' # "loop")
        /\ (pc # "loop") => (stdout' = stdout /\ pos' = pos /\ pc' = pc)
        /\ SubSeq(stdout', 1, Len(stdout)) = stdout ]_vars

\* the driver stopped on an unknown severity after writing earlier lines and
\* with lines still unread
C1_Witness ==
    /\ pc = "badtagtype"
    /\ Len(stdout) = pos - 1
    /\ Len(stdout) >= 1
    /\ pos < Len(input)

\* C2 (as claimed): for every input line that matches neither record shape,
\* the text written for it is exactly the raw line, with no character and no
\* line terminator added or removed.
C2_RawLineUnmodified ==
    \A i \in 1..Len(stdout) :
        (/\ i <= Len(input)
         /\ retagDefault(input[i]) = NoMatch
         /\ retagTime(input[i]) = NoMatch)
            => stdout[i] = input[i]

\* C3 (as claimed): after end-of-stream on an input of n lines exactly n
\* records have been written, the i-th derived from the i-th line (the raw
\* line, or a rendered record when the line matched).
C3_OneRecordPerLine ==
    pc = "eof" =>
        /\ Len(stdout) = Len(input)
        /\ \A i \in 1..Len(stdout) :
              \/ stdout[i] = PrintLine(input[i])
              \/ /\ IsRendered(stdout[i])
                 /\ retagDefault(input[i]) # NoMatch \/ retagTime(input[i]) # NoMatch

\* C4: the flag never goes back from timestamped to brief, and a record
\* rendered in a step carries a time field exactly when the mode was already
\* timestamped or the line is not brief-shaped (it matched the timestamped
\* pattern and switched the mode): a brief-shaped line in brief mode is
\* rendered without one, every record rendered from the switch on with one.
C4_StickyMode ==
    [][ /\ timeOutputted => timeOutputted'
        /\ (Len(stdout') = Len(stdout) + 1 /\ IsRendered(stdout'[Len(stdout')]))
            => (HasTimeField(stdout'[Len(stdout')])
                    <=> (timeOutputted \/ retagDefault(NextLine) = NoMatch))
        /\ (Len(stdout') = Len(stdout) + 1 /\ IsRendered(stdout'[Len(stdout')]))
            => (HasTimeField(stdout'[Len(stdout')]) <=> timeOutputted') ]_vars

\* line 1 rendered without a time field, line 2 with one, and a third line
\* processed in timestamped mode: rendered with a time field, or not rendered
C4_Witness ==
    /\ Len(stdout) >= 3
    /\ timeOutputted
    /\ IsRendered(stdout[1]) /\ ~HasTimeField(stdout[1])
    /\ IsRendered(stdout[2]) /\ HasTimeField(stdout[2])
    /\ IsRendered(stdout[3]) => HasTimeField(stdout[3])

\* C9: the k-th rendered record carries line number k however many raw
\* lines lie between, and the counter is one more than the number of matched
\* lines, a matched line that stopped the driver (unknown severity, or a
\* message that cannot be wrapped) included.
C9_LineNumbers ==
    /\ \A i \in 1..Len(stdout) :
          IsRendered(stdout[i])
            => /\ stdout[i][1] = " "
               /\ NumberColumn(stdout[i]) = ljust(str(RenderedUpTo(i)), NUMBER_WIDTH)
    /\ linenumber = 1 + RenderedUpTo(Len(stdout))
                      + (IF pc \in {"badtagtype", "wrapping"} THEN 1 ELSE 0)

\* a rendered record, a raw line, then the second rendered record
C9_Witness ==
    /\ Len(stdout) >= 3
    /\ IsRendered(stdout[1])
    /\ ~IsRendered(stdout[2])
    /\ IsRendered(stdout[3])
    /\ linenumber = 3

-----------------------------------------------------------------------------
(* C5-C8: the colour allocator.                                            *)

RingColours == {RED, GREEN, YELLOW, BLUE, MAGENTA, CYAN, WHITE}

\* the colours of the seeded tags
PinnedColours == {KNOWN_TAGS_Init[t] : t \in SeededTags}

\* C5: no entry of KNOWN_TAGS is ever removed or changed, and a call for a
\* tag that has an entry returns the colour of that entry.
C5_StableColours ==
    [][ \A t \in DOMAIN KNOWN_TAGS :
          /\ t \in DOMAIN KNOWN_TAGS'
          /\ KNOWN_TAGS'[t] = KNOWN_TAGS[t]
          /\ (calls' = calls + 1 /\ lastTag' = t) => lastColor' = KNOWN_TAGS[t] ]_vars

\* a tag first seen during the run is asked for again after other new tags
C5_Witness ==
    /\ lastTag = NewTag(1)
    /\ ~lastWasNew
    /\ NewTag(3) \in DOMAIN KNOWN_TAGS
    /\ lastColor = KNOWN_TAGS[NewTag(1)]

\* C6: in a run of consecutive never-before-seen tags, the 8th receives the
\* colour the 1st received (and so on along the run).
C6_EighthReusesFirst ==
    \A i \in 1..Len(newRun) :
        i + 7 <= Len(newRun) => newRun[i + 7] = newRun[i]

\* 8 new tags in a row, after the ring was reordered by earlier calls
C6_Witness ==
    /\ Len(newRun) >= 8
    /\ calls > Len(newRun)
    /\ newRun[1] # RED

\* C7: LAST_USED holds each of the 7 non-black colours exactly once.
C7_RingIsPermutation ==
    /\ Len(LAST_USED) = 7
    /\ Range(LAST_USED) = RingColours

\* seeded, new and known tags have all been through allocate_color
C7_Witness ==
    /\ calls >= 3
    /\ ~lastWasNew
    /\ lastTag \in NewTags
    /\ \E t \in SeededTags : LAST_USED[6] = KNOWN_TAGS[t]

\* C8 (as claimed): in the initial state no colour of a seeded tag is in the
\* ring, and a never-before-seen tag is not handed such a colour.
C8_PinnedOutsideRing ==
    /\ calls = 0 => \A t \in SeededTags : KNOWN_TAGS[t] \notin Range(LAST_USED)
    /\ lastWasNew => lastColor \notin PinnedColours

\* C8 (amended): the colours of the seeded tags are members of the ring, in
\* every state; their entries stay BLUE and CYAN; and while only new tags
\* have been processed the i-th of them received the i-th colour of the
\* initial ring, the 4th BLUE and the 6th CYAN.
C8_PinnedInsideRing ==
    /\ \A t \in SeededTags :
          /\ KNOWN_TAGS[t] \in Range(LAST_USED)
          /\ KNOWN_TAGS[t] = (IF t \in {dalvikvm, Process} THEN BLUE ELSE CYAN)
    /\ calls = 0 => (LAST_USED[4] = BLUE /\ LAST_USED[6] = CYAN)
    /\ (calls = Len(newRun) /\ Len(newRun) >= 4) => newRun[4] = BLUE
    /\ (calls = Len(newRun) /\ Len(newRun) >= 6) => newRun[6] = CYAN

\* six new tags straight from the initial state: the 4th and the 6th were
\* handed the colours of the seeded tags
C8_Witness ==
    /\ calls = 6
    /\ Len(newRun) = 6
    /\ newRun[4] \in PinnedColours
    /\ lastColor \in PinnedColours

-----------------------------------------------------------------------------
(* C10: indent_wrap.                                                       *)

\* the text made of k chunks of w characters of msg, joined by a newline and
\* ind spaces: position p lies in chunk (p-1) \div (w+1+ind)
IsChunked(buf, msg, w, ind, k) ==
    /\ Len(buf) = k * w + (k - 1) * (1 + ind)
    /\ \A p \in 1..Len(buf) :
          LET q == (p - 1) \div (w + 1 + ind)
              r == (p - 1) % (w + 1 + ind)
          IN  buf[p] = (IF r < w THEN msg[q * w + r + 1]
                        ELSE IF r = w THEN "\n" ELSE " ")

\* C10: for wrap_area W >= 1 and a message of length k*W, k >= 1, the value
\* returned is k chunks of exactly W characters, in order, consecutive
\* chunks joined by a newline and indent spaces, nothing after the last.
C10_WrapExact ==
    (/\ wpc = "returned"
     /\ width - indent >= 1
     /\ Len(message) >= 1
     /\ Len(message) % (width - indent) = 0)
        => IsChunked(messagebuf, message, width - indent, indent,
                     Len(message) \div (width - indent))

\* a message of three full chunks has been wrapped with a non-zero indent
C10_Witness ==
    /\ wpc = "returned"
    /\ indent >= 1
    /\ width - indent >= 2
    /\ Len(message) = 3 * (width - indent)
    /\ Len(messagebuf) = Len(message) + 2 * (1 + indent)

\* C11: indent_wrap of the empty message returns the empty string, and of a
\* message shorter than the available width returns the message itself, with
\* no newline and no indentation in it.
C11_ShortMessageUnchanged ==
    (/\ wpc = "returned"
     /\ Len(message) = 0 \/ Len(message) < width - indent)
        => /\ messagebuf = message
           /\ "\n" \notin Range(messagebuf)
           /\ " " \notin Range(messagebuf)

\* a non-empty message shorter than the available width has been wrapped
\* with a non-zero indent
C11_Witness ==
    /\ wpc = "returned"
    /\ indent >= 1
    /\ Len(message) >= 1
    /\ Len(message) < width - indent
    /\ messagebuf = message

-----------------------------------------------------------------------------
(* C12: the layout of a record rendered from a brief-shaped line.          *)

\* the text fld stands in v from column p on
FieldAt(v, p, fld) ==
    /\ p >= 1
    /\ p + Len(fld) - 1 <= Len(v)
    /\ SubSeq(v, p, p + Len(fld) - 1) = fld

\* the i-th written text is a record rendered from a brief-shaped line
IsBriefRecord(i) ==
    /\ i <= Len(input)
    /\ retagDefault(input[i]) # NoMatch
    /\ IsRendered(stdout[i])

BriefFields(i) == Fields(retagDefault(input[i]), FALSE)

\* the fields of a record as the code pads them
NumberText(i) == ljust(str(RenderedUpTo(i)), NUMBER_WIDTH)
OwnerText(i) == center(strip(BriefFields(i).owner), PROCESS_WIDTH)
TagText(i) == rjust(LastChars(strip(BriefFields(i).tag), TAG_WIDTH), TAG_WIDTH)

\* C12 (as claimed): every record rendered from a brief-shaped line shows the
\* line number, then the tag, then the process id, then the message, from
\* left to right.
C12_TagBeforeProcess ==
    \A i \in 1..Len(stdout) :
        IsBriefRecord(i) =>
            LET v == Visible(stdout[i])
                body == indent_wrap(BriefFields(i).message, HEADER_SIZE, WIDTH) \o <<"\n">>
            IN  \E pn \in 1..Len(v) :
                    /\ FieldAt(v, pn, NumberText(i))
                    /\ \E pt \in (pn + 1)..Len(v) :
                          /\ FieldAt(v, pt, TagText(i))
                          /\ \E pp \in (pt + 1)..Len(v) :
                                /\ FieldAt(v, pp, OwnerText(i))
                                /\ \E pm \in (pp + 1)..Len(v) : FieldAt(v, pm, body)

\* C12 (amended): every record rendered from a brief-shaped line shows, from
\* left to right, a space, the line number left-justified to 6 columns, the
\* process id centred to 8 columns (written in full when it is longer), a
\* space, the last 25 characters of the tag right-justified to 25 columns, a
\* space, the 3-column severity badge, a space, and the wrapped message.
C12_ProcessBeforeTag ==
    \A i \in 1..Len(stdout) :
        IsBriefRecord(i) =>
            LET v == Visible(stdout[i])
                f == BriefFields(i)
                pn == 2
                pp == pn + Len(NumberText(i))
                pt == pp + Len(OwnerText(i)) + 1
                pb == pt + TAG_WIDTH + 1
                pm == pb + TAGTYPE_WIDTH + 1
            IN  /\ v[1] = " "
                /\ FieldAt(v, pn, NumberText(i))
                /\ FieldAt(v, pp, OwnerText(i))
                /\ v[pt - 1] = " "
                /\ FieldAt(v, pt, TagText(i))
                /\ v[pb - 1] = " "
                /\ FieldAt(v, pb, center(f.tagtype, TAGTYPE_WIDTH))
                /\ v[pm - 1] = " "
                /\ FieldAt(v, pm, indent_wrap(f.message, HEADER_SIZE, WIDTH) \o <<"\n">>)
                /\ Len(v) = pm + Len(indent_wrap(f.message, HEADER_SIZE, WIDTH))
                /\ Len(NumberText(i)) = NUMBER_WIDTH
                /\ Len(TagText(i)) = TAG_WIDTH
                /\ Len(OwnerText(i)) = Max(PROCESS_WIDTH, Len(strip(f.owner)))

\* records have been rendered from a line whose tag is cut to 25 characters
\* and from a line whose process id is shorter than its column
C12_Witness ==
    \E i, j \in 1..Len(stdout) :
        /\ IsBriefRecord(i)
        /\ Len(strip(BriefFields(i).tag)) > TAG_WIDTH
        /\ IsBriefRecord(j)
        /\ Len(strip(BriefFields(j).owner)) < PROCESS_WIDTH
        /\ Len(BriefFields(j).message) > WIDTH - HEADER_SIZE

-----------------------------------------------------------------------------
(* C13: an interrupt during the read.                                      *)

\* C13: the step in which the blocking read is interrupted writes nothing,
\* consumes no line and leaves the mode flag, the line counter, KNOWN_TAGS and
\* LAST_USED as they were; after it nothing is written or read and none of
\* them changes.
C13_InterruptStopsCleanly ==
    [][ ((pc = "loop" /\ pc' = "interrupted") \/ pc = "interrupted")
            => /\ stdout' = stdout
               /\ pos' = pos
               /\ timeOutputted' = timeOutputted
               /\ linenumber' = linenumber
               /\ KNOWN_TAGS' = KNOWN_TAGS
               /\ LAST_USED' = LAST_USED
               /\ pc' = "interrupted" ]_vars

\* the read was interrupted after a record was rendered in timestamped mode
\* and with a line still unread
C13_Witness ==
    /\ pc = "interrupted"
    /\ pos >= 1
    /\ pos < Len(input)
    /\ Len(stdout) = pos
    /\ timeOutputted
    /\ linenumber >= 2

-----------------------------------------------------------------------------
(* C14: termination of the driver.                                         *)

\* the loop has been left: end of the stream, an interrupt, or a break
Terminated == pc \in {"eof", "interrupted", "badtagtype"}

\* C14 (as claimed): for every finite input and every terminal width the
\* driver terminates. Every step of the loop consumes a line of the finite
\* input or leaves the loop, so the driver terminates exactly when it is
\* never stopped inside the processing of a line: in every state it has left
\* the loop or can go on to its next step.
C14_Terminates == Terminated \/ ENABLED Next

-----------------------------------------------------------------------------
(* C15: a brief-shaped line in timestamped mode.                           *)

\* C15: while the mode is timestamped, the step that processes a brief-shaped
\* line does not render it: the text written for it starts with the raw line
\* and carries no escape sequence, the line counter, KNOWN_TAGS and LAST_USED
\* are unchanged, and the mode stays timestamped and the loop goes on.
C15_BriefLineInTimestampedMode ==
    [][ (/\ pc = "loop"
         /\ timeOutputted
         /\ retagDefault(NextLine) # NoMatch
         /\ pc' # "interrupted")
            => /\ Len(stdout') = Len(stdout) + 1
               /\ ~IsRendered(stdout'[Len(stdout')])
               /\ SubSeq(stdout'[Len(stdout')], 1, Len(NextLine)) = NextLine
               /\ linenumber' = linenumber
               /\ KNOWN_TAGS' = KNOWN_TAGS
               /\ LAST_USED' = LAST_USED
               /\ timeOutputted'
               /\ pc' = "loop" ]_vars

\* a brief-shaped line with a known severity and a tag not seen before was
\* passed through after a timestamped record had been rendered
C15_Witness ==
    /\ timeOutputted
    /\ \E i \in 2..Len(stdout) :
          /\ i <= Len(input)
          /\ input[i] = LineBrief
          /\ ~IsRendered(stdout[i])
          /\ IsRendered(stdout[i - 1])
          /\ <<"F", "o", "o">> \notin DOMAIN KNOWN_TAGS

-----------------------------------------------------------------------------
(* C16: LAST_USED as a record of recency.                                  *)

\* the place of a colour in the ring as the program starts
InitialPlace(c) == IndexFrom(LAST_USED_Init, c, 1)

\* under the record of uses u, the most recent use of c is older than that
\* of d; colours never used are older than used ones and keep their initial
\* order
Older(u, c, d) ==
    \/ u[c] < u[d]
    \/ u[c] = u[d] /\ InitialPlace(c) < InitialPlace(d)

\* C16: a tag not seen before receives the ring colour whose most recent use
\* (assignment to a new tag or touch by a known tag, seeded tags included) is
\* the oldest, never-used colours first in their initial ring order; and
\* after every call, new tag or known, the colour returned is at the
\* most-recently-used end and the ring lists the colours from the least to
\* the most recently used.
C16_LeastRecentlyUsed ==
    [][ calls' = calls + 1
            => /\ lastWasNew'
                    => \A c \in RingColours \ {lastColor'} : Older(usedAt, lastColor', c)
               /\ LAST_USED'[Len(LAST_USED')] = lastColor'
               /\ \A i, j \in 1..Len(LAST_USED') :
                     i < j => Older(usedAt', LAST_USED'[i], LAST_USED'[j]) ]_vars

\* a new tag received MAGENTA: BLUE, next in the initial order after YELLOW,
\* had been touched by a seeded tag before YELLOW was handed out, and WHITE
\* had never been used
C16_Witness ==
    /\ lastWasNew
    /\ lastColor = MAGENTA
    /\ usedAt[BLUE] > 0
    /\ usedAt[BLUE] < usedAt[YELLOW]
    /\ usedAt[WHITE] = 0

-----------------------------------------------------------------------------
(* C17: the header of a record and the continuation indent.                *)

\* the i-th written text is a rendered record (of a line of either shape)
IsRecord(i) == i <= Len(input) /\ IsRendered(stdout[i])

\* the record was rendered with a time field: its line has the timestamped shape
RecordTimed(i) == retagTime(input[i]) # NoMatch

RecordFields(i) ==
    IF RecordTimed(i) THEN Fields(retagTime(input[i]), TRUE)
    ELSE Fields(retagDefault(input[i]), FALSE)

\* the message of the record as wrapped, which ends the record before the
\* newline of print
RecordBody(i) == indent_wrap(RecordFields(i).message, headerSize(RecordTimed(i)), WIDTH)

\* the number of visible characters of the record before its message
HeaderLength(i) == Len(Visible(stdout[i])) - 1 - Len(RecordBody(i))

\* C17 (as claimed): in every rendered record the number of visible
\* characters written before the message equals the indent of its
\* continuation lines, HEADER_SIZE in brief mode and HEADER_SIZE + TIME_WIDTH
\* in timestamped mode, whatever the line number, process id, tag and
\* timestamp of the line.
C17_HeaderMatchesIndent ==
    \A i \in 1..Len(stdout) :
        IsRecord(i) => HeaderLength(i) = headerSize(RecordTimed(i))

-----------------------------------------------------------------------------
(* C18, C19: the mode flag, the match and the state a line may change.     *)

\* C18: in every step that processes a matched line, the flag as it stands
\* when the fields are taken out is timestamped exactly when the match has the
\* five fields of the timestamped pattern, and brief exactly when it has the
\* four fields of the brief pattern.
C18_FlagAgreesWithMatch ==
    [][ (pc = "loop" /\ NextMatches /\ pc' # "interrupted")
            => /\ timeOutputted' <=> Len(Matched.match) = 5
               /\ ~timeOutputted' <=> Len(Matched.match) = 4 ]_vars

\* a record was rendered from a four-field match and a later one from a
\* five-field match
C18_Witness ==
    \E i, j \in 1..Len(stdout) :
        /\ i < j
        /\ IsRecord(i) /\ ~RecordTimed(i)
        /\ IsRecord(j) /\ RecordTimed(j)
        /\ RecordFields(j).time # <<>>

\* the line about to be read matches neither pattern
NextMatchesNeither ==
    retagDefault(NextLine) = NoMatch /\ retagTime(NextLine) = NoMatch

\* C19: a step that processes a line matching neither pattern leaves the mode
\* flag, the line counter, KNOWN_TAGS and LAST_USED as they were; the mode
\* flag changes only in a step whose line matches the timestamped pattern;
\* the line counter, KNOWN_TAGS and LAST_USED change only in a step whose line
\* matched.
C19_UnmatchedLineChangesNothing ==
    [][ /\ (pc = "loop" /\ NextMatchesNeither)
            => UNCHANGED <<timeOutputted, linenumber, KNOWN_TAGS, LAST_USED>>
        /\ timeOutputted' # timeOutputted => retagTime(NextLine) # NoMatch
        /\ (linenumber' # linenumber \/ KNOWN_TAGS' # KNOWN_TAGS \/ LAST_USED' # LAST_USED)
            => (pc = "loop" /\ NextMatches) ]_vars

\* a line matching neither pattern was passed through after a record had
\* been rendered, and another record was rendered after it
C19_Witness ==
    \E i \in 2..(Len(stdout) - 1) :
        /\ IsRecord(i - 1)
        /\ i <= Len(input)
        /\ retagDefault(input[i]) = NoMatch
        /\ retagTime(input[i]) = NoMatch
        /\ ~IsRendered(stdout[i])
        /\ IsRecord(i + 1)
        /\ linenumber = 3

=============================================================================
